---- MODULE Spec2Model ----
(***************************************************************************)
(* Sliding-window flood control: FloodControlImpl of main.go.              *)
(*                                                                         *)
(* Concurrent callers (Procs) invoke Check(userID); each invocation is     *)
(* modelled statement by statement (Lock, time.Now, map lookup, eviction   *)
(* loop, length comparison, PushBack, map store, deferred Unlock).  The    *)
(* clock is a separate environment action that only moves forward.        *)
(***************************************************************************)
EXTENDS Integers, Sequences, FiniteSets, TLC

\* ---------------------------------------------------------------- bounds
MaxTime == 2        \* the clock runs over 0..MaxTime
MaxWindow == 2      \* timeInterval is drawn from 1..MaxWindow
MaxLimit == 2       \* maxRequests is drawn from -1..MaxLimit

Keys == {1, 2}      \* userID values used by the callers
Procs == {1, 2}     \* concurrent callers of Check

VARIABLES
    timeInterval,   \* fc.timeInterval
    maxRequests,    \* fc.maxRequests
    requests,       \* fc.requests: a function whose DOMAIN is the set of keys present
    mu,             \* fc.mu: 0 when free, else the caller holding it
    clock,          \* the process clock read by time.Now()
    pc,             \* each caller's position in Check
    userID,         \* each caller's argument
    now,            \* each caller's local `now`
    requestTimes,   \* each caller's local `requestTimes` (a *list.List)
    result,         \* each caller's return value (bool, error)
    \* history variables (not program state)
    pre,            \* the key's log as the caller found it at the map lookup
    admitted,       \* per key, the instants of the calls that returned (true, nil) and
                    \* lie within the trailing window of lastNow
    lastNow,        \* the instant captured by the most recent call
    nCalls,         \* per key, the number of completed calls (counted up to maxRequests + 1)
    firstCall,      \* per key, the instant of its first completed call; -1 if none;
                    \* -2 once that instant is more than a window before lastNow
    rejOldest,      \* per key, the oldest logged instant at its latest rejection, -1 if none since
    solo,           \* per key, the log of a limiter that receives this key's calls only
    seqMap,         \* the map of a limiter that runs the same calls one after another
    evicted         \* per key, the latest instant the loop removed from its log, -1 if none

vars == <<timeInterval, maxRequests, requests, mu, clock, pc, userID, now,
          requestTimes, result, pre, admitted, lastNow, nCalls, firstCall,
          rejOldest, solo, seqMap, evicted>>

config == <<timeInterval, maxRequests>>
locals == <<userID, now, requestTimes, result, pre>>
history == <<admitted, nCalls, firstCall, rejOldest, solo, seqMap>>

\* ------------------------------------------------------------ list values
\* A list element is an interface{} value: its dynamic type and its payload.
TimeValue(n) == [typ |-> "time", val |-> n]

\* front.Value.(time.Time): the `ok` of the type assertion
IsTime(v) == v.typ = "time"

\* (variant: an element exactly one window old is removed too)
StaleAtBoundary(value, n) == n - value.val >= timeInterval

\* (variant: an element is removed one instant late)
StaleLate(value, n) == n - value.val > timeInterval + 1

\* now.Sub(value) <= fc.timeInterval is the loop's break condition; its negation
\* is the condition under which the front element is removed
Stale(value, n) == ~(n - value.val <= timeInterval)

\* (variant: the comparison is strict)
FullOffByOne(l) == Len(l) > maxRequests

\* (variant: the comparison rejects one entry early)
FullEarly(l) == Len(l) >= maxRequests - 1

\* requestTimes.Len() >= fc.maxRequests
Full(l) == Len(l) >= maxRequests

\* (variant: the element at the back is removed)
RemoveBack(l) == SubSeq(l, 1, Len(l) - 1)

\* requestTimes.Remove(front)
RemoveFront(l) == Tail(l)

\* (variant: the instant is pushed at the front)
PushFront(l, n) == <<TimeValue(n)>> \o l

\* (variant: the instant is stored as a value that is not a time.Time)
PushBackRaw(l, n) == Append(l, [typ |-> "int64", val |-> n])

\* requestTimes.PushBack(now)
PushBack(l, n) == Append(l, TimeValue(n))

\* (variant: the store replaces the map by one that holds this key only)
MapStoreOnly(m, k, l) == [x \in {k} |-> l]

\* fc.requests[userID] = requestTimes
MapStore(m, k, l) == [x \in DOMAIN m \cup {k} |-> IF x = k THEN l ELSE m[x]]

\* (variant: every caller reads the entry of one and the same key)
LookupShared(k) == 1

\* fc.requests[userID]: the key whose entry the lookup reads
LookupKey(k) == k

\* the log of key k as a sequence (an absent key has no entries)
LogOf(m, k) == IF k \in DOMAIN m THEN m[k] ELSE <<>>

\* the payloads of a list, front to back
Times(l) == [i \in 1..Len(l) |-> l[i].val]

\* ------------------------------------------------------------ local list
NilList == [ref |-> "nil", list |-> <<>>]

\* The list a caller's requestTimes points to: the list stored in the map
\* (shared, mutated in place) or the one list.New() gave this caller.
List(p) ==
    IF requestTimes[p].ref = "map" THEN requests[LookupKey(userID[p])]
    ELSE requestTimes[p].list

\* An in-place mutation of the list requestTimes points to.
SetList(p, l) ==
    IF requestTimes[p].ref = "map"
    THEN /\ requests' = [requests EXCEPT ![LookupKey(userID[p])] = l]
         /\ UNCHANGED requestTimes
    ELSE /\ requestTimes' = [requestTimes EXCEPT ![p].list = l]
         /\ UNCHANGED requests

NoResult == [ok |-> FALSE, err |-> "none"]

\* ----------------------------------------------------------------- Init
\* NewFloodControl(timeInterval, maxRequests): an empty map, the two
\* configuration values as passed, the zero-value mutex.
NewFloodControl(w, k) ==
    /\ requests = <<>>
    /\ timeInterval = w
    /\ maxRequests = k
    /\ mu = 0

Init ==
    /\ \E w \in 1..MaxWindow, k \in (-1)..MaxLimit : NewFloodControl(w, k)
    /\ clock = 0
    /\ pc = [p \in Procs |-> "idle"]
    /\ userID = [p \in Procs |-> 0]
    /\ now = [p \in Procs |-> 0]
    /\ requestTimes = [p \in Procs |-> NilList]
    /\ result = [p \in Procs |-> NoResult]
    /\ pre = [p \in Procs |-> <<>>]
    /\ admitted = [k \in Keys |-> <<>>]
    /\ lastNow = 0
    /\ nCalls = [k \in Keys |-> 0]
    /\ firstCall = [k \in Keys |-> -1]
    /\ rejOldest = [k \in Keys |-> -1]
    /\ solo = [k \in Keys |-> <<>>]
    /\ seqMap = <<>>
    /\ evicted = [k \in Keys |-> -1]

\* ------------------------------------------- Check, run without interleaving
\* The eviction loop on a list l at instant n: the list it leaves and whether
\* it returned early on an element that is not a time.
RECURSIVE EvictLoop(_, _)
EvictLoop(l, n) ==
    IF l = <<>> THEN [list |-> l, bad |-> FALSE]
    ELSE IF ~IsTime(Head(l)) THEN [list |-> l, bad |-> TRUE]
    ELSE IF ~Stale(Head(l), n) THEN [list |-> l, bad |-> FALSE]
    ELSE EvictLoop(RemoveFront(l), n)

\* One whole Check on the list l of one key at instant n.
CheckList(l, n) ==
    LET e == EvictLoop(l, n) IN
    IF e.bad THEN [ok |-> FALSE, err |-> "notTime", list |-> e.list, stored |-> FALSE]
    ELSE IF Full(e.list)
    THEN [ok |-> FALSE, err |-> "limit", list |-> e.list, stored |-> FALSE]
    ELSE [ok |-> TRUE, err |-> "nil", list |-> PushBack(e.list, n), stored |-> TRUE]

\* One whole Check(k) at instant n on the map m: the map it leaves.
CheckMap(m, k, n) ==
    LET r == CheckList(LogOf(m, k), n) IN
    IF k \in DOMAIN m THEN [m EXCEPT ![k] = r.list]
    ELSE IF r.stored THEN MapStore(m, k, r.list)
    ELSE m

\* -------------------------------------------------------------- actions
\* A caller invokes fc.Check(ctx, k) and arrives at fc.mu.Lock().
Call(p, k) ==
    /\ pc[p] = "idle"
    /\ pc' = [pc EXCEPT ![p] = "lock"]
    /\ userID' = [userID EXCEPT ![p] = k]
    /\ UNCHANGED <<config, requests, mu, clock, now, requestTimes, result, pre,
                   history, lastNow>>
    /\ UNCHANGED evicted

\* (variant: Lock() never waits)
NoMutex == TRUE

\* sync.Mutex: Lock() returns only when no caller holds the mutex
CanLock == mu = 0

\* fc.mu.Lock()
Lock(p) ==
    /\ pc[p] = "lock"
    /\ CanLock
    /\ mu' = p
    /\ pc' = [pc EXCEPT ![p] = "now"]
    /\ UNCHANGED <<config, requests, clock, locals, history, lastNow>>
    /\ UNCHANGED evicted

\* The histories as they stand once a call has captured the instant n: what
\* has left the trailing window of n is forgotten (the clock never goes
\* backwards, so it cannot re-enter the window of a later call).
Observe(n) ==
    /\ lastNow' = n
    /\ admitted' = [k \in Keys |-> SelectSeq(admitted[k], LAMBDA t : n - t <= timeInterval)]
    /\ firstCall' = [k \in Keys |->
            IF firstCall[k] >= 0 /\ n - firstCall[k] > timeInterval THEN -2 ELSE firstCall[k]]
    /\ nCalls' = [k \in Keys |->
            IF firstCall[k] >= 0 /\ n - firstCall[k] > timeInterval THEN 0 ELSE nCalls[k]]

\* now := time.Now()
ReadNow(p) ==
    /\ pc[p] = "now"
    /\ now' = [now EXCEPT ![p] = clock]
    /\ Observe(clock)
    /\ pc' = [pc EXCEPT ![p] = "load"]
    /\ UNCHANGED <<config, requests, mu, clock, userID, requestTimes, result, pre,
                   rejOldest, solo, seqMap>>
    /\ UNCHANGED evicted

\* requestTimes := fc.requests[userID]; if requestTimes == nil { requestTimes = list.New() }
Load(p) ==
    /\ pc[p] = "load"
    /\ requestTimes' = [requestTimes EXCEPT ![p] =
            IF LookupKey(userID[p]) \in DOMAIN requests
            THEN [ref |-> "map", list |-> <<>>]
            ELSE [ref |-> "new", list |-> <<>>]]
    /\ pre' = [pre EXCEPT ![p] = LogOf(requests, userID[p])]
    /\ pc' = [pc EXCEPT ![p] = "evict"]
    /\ UNCHANGED <<config, requests, mu, clock, userID, now, result, history, lastNow>>
    /\ UNCHANGED evicted

\* One evaluation of the loop: for front := requestTimes.Front(); front != nil; { ... }
Evict(p) ==
    /\ pc[p] = "evict"
    /\ LET l == List(p) IN
       IF l = <<>>
       THEN /\ pc' = [pc EXCEPT ![p] = "len"]
            /\ UNCHANGED <<requests, requestTimes, result, evicted>>
       ELSE IF ~IsTime(Head(l))
       THEN /\ result' = [result EXCEPT ![p] = [ok |-> FALSE, err |-> "notTime"]]
            /\ pc' = [pc EXCEPT ![p] = "unlock"]
            /\ UNCHANGED <<requests, requestTimes, evicted>>
       ELSE IF ~Stale(Head(l), now[p])
       THEN /\ pc' = [pc EXCEPT ![p] = "len"]
            /\ UNCHANGED <<requests, requestTimes, result, evicted>>
       ELSE /\ SetList(p, RemoveFront(l))
            /\ evicted' = [evicted EXCEPT ![userID[p]] =
                    IF Head(l).val > @ THEN Head(l).val ELSE @]
            /\ UNCHANGED <<pc, result>>
    /\ UNCHANGED <<config, mu, clock, userID, now, pre, history, lastNow>>

\* (variant: the instant is recorded before the length is compared)
CompareRecording(p) ==
    /\ pc[p] = "len"
    /\ IF Full(List(p))
       THEN /\ SetList(p, PushBack(List(p), now[p]))
            /\ result' = [result EXCEPT ![p] = [ok |-> FALSE, err |-> "limit"]]
            /\ pc' = [pc EXCEPT ![p] = "unlock"]
       ELSE /\ pc' = [pc EXCEPT ![p] = "push"]
            /\ UNCHANGED <<result, requests, requestTimes>>
    /\ UNCHANGED <<config, mu, clock, userID, now, pre, history, lastNow>>
    /\ UNCHANGED evicted

\* if requestTimes.Len() >= fc.maxRequests { return false, errors.New(...) }
Compare(p) ==
    /\ pc[p] = "len"
    /\ IF Full(List(p))
       THEN /\ result' = [result EXCEPT ![p] = [ok |-> FALSE, err |-> "limit"]]
            /\ pc' = [pc EXCEPT ![p] = "unlock"]
       ELSE /\ pc' = [pc EXCEPT ![p] = "push"]
            /\ UNCHANGED result
    /\ UNCHANGED <<config, requests, mu, clock, userID, now, requestTimes, pre,
                   history, lastNow>>
    /\ UNCHANGED evicted

\* requestTimes.PushBack(now)
Push(p) ==
    /\ pc[p] = "push"
    /\ SetList(p, PushBack(List(p), now[p]))
    /\ pc' = [pc EXCEPT ![p] = "store"]
    /\ UNCHANGED <<config, mu, clock, userID, now, result, pre, history, lastNow>>
    /\ UNCHANGED evicted

\* fc.requests[userID] = requestTimes; return true, nil
Store(p) ==
    /\ pc[p] = "store"
    /\ requests' = MapStore(requests, userID[p], List(p))
    /\ requestTimes' = [requestTimes EXCEPT ![p] = [ref |-> "map", list |-> <<>>]]
    /\ result' = [result EXCEPT ![p] = [ok |-> TRUE, err |-> "nil"]]
    /\ pc' = [pc EXCEPT ![p] = "unlock"]
    /\ UNCHANGED <<config, mu, clock, userID, now, pre, history, lastNow>>
    /\ UNCHANGED evicted

\* The histories as they stand once the call of p has returned.
Record(p) ==
    LET k == userID[p]
        r == result[p]
    IN  /\ admitted' = [admitted EXCEPT ![k] = IF r.ok THEN Append(@, now[p]) ELSE @]
        /\ nCalls' = [nCalls EXCEPT ![k] =
                IF firstCall[k] # -2 /\ @ <= maxRequests THEN @ + 1 ELSE @]
        /\ firstCall' = [firstCall EXCEPT ![k] = IF @ = -1 THEN now[p] ELSE @]
        /\ rejOldest' = [rejOldest EXCEPT ![k] =
                IF r.ok \/ LogOf(requests, k) = <<>> THEN -1
                ELSE Head(LogOf(requests, k)).val]
        /\ solo' = [solo EXCEPT ![k] = CheckList(@, now[p]).list]
        /\ seqMap' = CheckMap(seqMap, k, now[p])

\* (variant: the return does not release the mutex)
UnlockLeak(p) ==
    /\ pc[p] = "unlock"
    /\ Record(p)
    /\ pc' = [pc EXCEPT ![p] = "idle"]
    /\ userID' = [userID EXCEPT ![p] = 0]
    /\ now' = [now EXCEPT ![p] = 0]
    /\ requestTimes' = [requestTimes EXCEPT ![p] = NilList]
    /\ result' = [result EXCEPT ![p] = NoResult]
    /\ pre' = [pre EXCEPT ![p] = <<>>]
    /\ UNCHANGED <<config, requests, clock, lastNow, mu>>
    /\ UNCHANGED evicted

\* defer fc.mu.Unlock(), run as Check returns its result to the caller
Unlock(p) ==
    /\ pc[p] = "unlock"
    /\ mu' = 0
    /\ Record(p)
    /\ pc' = [pc EXCEPT ![p] = "idle"]
    /\ userID' = [userID EXCEPT ![p] = 0]
    /\ now' = [now EXCEPT ![p] = 0]
    /\ requestTimes' = [requestTimes EXCEPT ![p] = NilList]
    /\ result' = [result EXCEPT ![p] = NoResult]
    /\ pre' = [pre EXCEPT ![p] = <<>>]
    /\ UNCHANGED <<config, requests, clock, lastNow>>
    /\ UNCHANGED evicted

\* The clock advances (it never goes backwards).
Tick ==
    /\ clock < MaxTime
    /\ clock' = clock + 1
    /\ UNCHANGED <<config, requests, mu, pc, locals, history, lastNow>>
    /\ UNCHANGED evicted

Next ==
    \/ \E p \in Procs, k \in Keys : Call(p, k)
    \/ \E p \in Procs : Lock(p)
    \/ \E p \in Procs : ReadNow(p)
    \/ \E p \in Procs : Load(p)
    \/ \E p \in Procs : Evict(p)
    \/ \E p \in Procs : Compare(p)
    \/ \E p \in Procs : Push(p)
    \/ \E p \in Procs : Store(p)
    \/ \E p \in Procs : Unlock(p)
    \/ Tick

Spec == Init /\ [][Next]_vars

\* The statements of Check between Lock() and the return, for caller p.
Body(p) ==
    \/ ReadNow(p) \/ Load(p) \/ Evict(p)
    \/ Compare(p) \/ Push(p) \/ Store(p) \/ Unlock(p)

\* Fair scheduling: a goroutine that can run its next statement does so in the
\* end (weak fairness of the body), and a goroutine waiting at Lock() is not
\* passed over forever while the mutex is released again and again (strong
\* fairness of Lock: sync.Mutex hands the mutex to a starving waiter).
FairSpec ==
    /\ Spec
    /\ \A p \in Procs : WF_vars(Body(p))
    /\ \A p \in Procs : SF_vars(Lock(p))

\* ------------------------------------------------- vocabulary of the claims
\* t lies within the trailing window of n
InWindow(t, n) == n - t <= timeInterval

\* the entries of l within the trailing window of n, in order
PostEvict(l, n) == SelectSeq(l, LAMBDA e : InWindow(e.val, n))

\* the number of entries of l within the trailing window of n
CountInWindow(l, n) == Cardinality({i \in DOMAIN l : InWindow(l[i].val, n)})

\* Check is about to return to caller p (the map is final, the result is set)
Returning(p) == pc[p] = "unlock"

Admitted(p) == result[p] = [ok |-> TRUE, err |-> "nil"]
Rejected(p) == result[p] = [ok |-> FALSE, err |-> "limit"]

\* ------------------------------------------------------------------- C1
\* C1: capacity bound.  For limit > 0 and every key, the number of admitted
\* events of that key whose instant t satisfies lastNow - t <= window, where
\* lastNow is the instant of the most recent call, never exceeds limit.
C1_CapacityBound ==
    maxRequests > 0 =>
        \A k \in Keys :
            Cardinality({i \in DOMAIN admitted[k] : InWindow(admitted[k][i], lastNow)})
                <= maxRequests

\* a key holds limit = 2 admitted events in the window and a further call for it
\* is being rejected
C1_Witness ==
    \E p \in Procs :
        /\ Returning(p) /\ Rejected(p)
        /\ maxRequests = 2
        /\ Len(admitted[userID[p]]) = 2
        /\ \A i \in 1..2 : InWindow(admitted[userID[p]][i], lastNow)

\* ------------------------------------------------------------------- C2
\* C2: for a fresh key and limit K > 0, each of the first K calls for the key
\* made within one window of the first is admitted (true, nil), and the
\* (K+1)-th call made within that window is rejected (false, error).
C2_FirstKThenReject ==
    \A p \in Procs :
        Returning(p) /\ maxRequests > 0 =>
            LET k == userID[p] IN
            /\ firstCall[k] = -1 => Admitted(p)
            /\ firstCall[k] >= 0 /\ InWindow(firstCall[k], now[p]) =>
                  /\ nCalls[k] < maxRequests => Admitted(p)
                  /\ nCalls[k] = maxRequests => Rejected(p)

\* the third call for a key with limit 2, within one window of the first, is
\* being rejected
C2_Witness ==
    \E p \in Procs :
        /\ Returning(p) /\ Rejected(p)
        /\ maxRequests = 2
        /\ nCalls[userID[p]] = 2
        /\ firstCall[userID[p]] >= 0
        /\ InWindow(firstCall[userID[p]], now[p])

\* ------------------------------------------------------------------- C3
\* C3: independence across keys (outcome).  The result of every Check(b) equals
\* the result the same call gets, at the same instant, from a limiter that has
\* received the calls for key b only (solo[b]): calls for other keys, interleaved
\* in any number, do not change it.
C3_KeyIndependence ==
    \A p \in Procs :
        Returning(p) =>
            LET r == CheckList(solo[userID[p]], now[p]) IN
            /\ result[p].ok = r.ok
            /\ result[p].err = r.err

\* key b is admitted while another key a is at capacity, all of a's entries are
\* within the window, and a's latest call was rejected
C3_Witness ==
    \E p \in Procs, a \in Keys :
        /\ Returning(p) /\ Admitted(p)
        /\ a # userID[p]
        /\ maxRequests > 0
        /\ rejOldest[a] >= 0
        /\ Len(LogOf(requests, a)) = maxRequests
        /\ CountInWindow(LogOf(requests, a), now[p]) = maxRequests

\* ------------------------------------------------------------------- C4
\* C4: eviction with an inclusive boundary.  When the eviction loop of a Check
\* for key k at instant t1 has finished, the entries counted toward the capacity
\* are exactly the admitted events t0 of k with t1 - t0 <= window: none with
\* t1 - t0 > window is counted, every one with t1 - t0 <= window is, the one with
\* t1 - t0 = window included.
C4_EvictionBoundary ==
    \A p \in Procs :
        pc[p] = "len" =>
            /\ Times(List(p)) =
                  SelectSeq(admitted[userID[p]], LAMBDA t : InWindow(t, now[p]))
            /\ \A i \in DOMAIN List(p) : now[p] - List(p)[i].val <= timeInterval
            /\ \A i \in DOMAIN pre[p] :
                  now[p] - pre[p][i].val <= timeInterval
                      => Len(List(p)) >= Len(pre[p]) - i + 1

\* C4, the boundary instant with limit = 1: a Check made while the one logged
\* event is at most one window old (exactly one window included) is rejected,
\* and a Check made at any later instant is admitted.
C4_BoundaryLimitOne ==
    \A p \in Procs :
        Returning(p) /\ maxRequests = 1 /\ Len(pre[p]) = 1 =>
            IF now[p] - pre[p][1].val <= timeInterval THEN Rejected(p) ELSE Admitted(p)

\* C4: the two statements above together.
C4_EvictionCorrectness == C4_EvictionBoundary /\ C4_BoundaryLimitOne

\* the loop has removed an entry older than the window and has kept an entry
\* that is exactly one window old
C4_Witness ==
    \E p \in Procs :
        /\ pc[p] = "len"
        /\ \E i \in DOMAIN pre[p] : now[p] - pre[p][i].val > timeInterval
        /\ List(p) # <<>>
        /\ now[p] - Head(List(p)).val = timeInterval
        /\ Len(List(p)) < Len(pre[p])

\* ------------------------------------------------------------------- C5
\* C5: monotonic recovery.  For limit > 0, once a Check for a key has been
\* rejected at capacity, the next Check for that key made more than one window
\* after the key's oldest recorded admission is admitted, whatever calls for
\* other keys and rejected calls for this key came in between.
C5_MonotonicRecovery ==
    \A p \in Procs :
        /\ Returning(p)
        /\ maxRequests > 0
        /\ rejOldest[userID[p]] >= 0
        /\ now[p] - rejOldest[userID[p]] > timeInterval
        => Admitted(p)

\* a key rejected at capacity is admitted again after its oldest entry has left
\* the window
C5_Witness ==
    \E p \in Procs :
        /\ Returning(p) /\ Admitted(p)
        /\ maxRequests > 0
        /\ rejOldest[userID[p]] >= 0
        /\ now[p] - rejOldest[userID[p]] > timeInterval
        /\ Len(pre[p]) = maxRequests

\* ------------------------------------------------------------------- C6
\* C6: idempotent rejection.  A Check for a key whose log holds limit entries,
\* all of them within the window at the call's instant, is rejected and leaves
\* the key's log exactly as it found it (same length, same contents).
C6_IdempotentRejection ==
    \A p \in Procs :
        /\ Returning(p)
        /\ Len(pre[p]) = maxRequests
        /\ CountInWindow(pre[p], now[p]) = Len(pre[p])
        => /\ Rejected(p)
           /\ LogOf(requests, userID[p]) = pre[p]
           /\ Len(LogOf(requests, userID[p])) = maxRequests

\* a repeated rejection: the key was already rejected before, its window is
\* still full, and the call is rejected again
C6_Witness ==
    \E p \in Procs :
        /\ Returning(p) /\ Rejected(p)
        /\ maxRequests > 0
        /\ Len(pre[p]) = maxRequests
        /\ CountInWindow(pre[p], now[p]) = Len(pre[p])
        /\ rejOldest[userID[p]] >= 0
        /\ LogOf(requests, userID[p]) = pre[p]

\* ------------------------------------------------------------------- C7
\* caller p is between acquiring and releasing the lock
InCritical(p) == pc[p] \in {"now", "load", "evict", "len", "push", "store", "unlock"}

\* C7: concurrent Check calls are serialized.  At most one caller is between
\* acquiring and releasing the lock, and it is the holder of the mutex; every
\* result, and the map each call leaves, equal those of the same calls run one
\* after another in the order in which they held the lock (seqMap); the
\* capacity bound holds under every interleaving.
C7_Serialized ==
    /\ Cardinality({p \in Procs : InCritical(p)}) <= 1
    /\ \A p \in Procs : InCritical(p) <=> mu = p
    /\ mu = 0 => requests = seqMap
    /\ \A p \in Procs :
          Returning(p) =>
              LET r == CheckList(LogOf(seqMap, userID[p]), now[p]) IN
              /\ result[p].ok = r.ok
              /\ result[p].err = r.err
              /\ requests = CheckMap(seqMap, userID[p], now[p])
    /\ C1_CapacityBound

\* contention: one caller is returning an admission while the other caller is
\* waiting at Lock() with the same key, and the clock has moved on meanwhile
C7_Witness ==
    \E p \in Procs, q \in Procs :
        /\ p # q
        /\ Returning(p) /\ Admitted(p)
        /\ pc[q] = "lock"
        /\ userID[q] = userID[p]
        /\ clock > now[p]
        /\ seqMap # <<>>

\* ------------------------------------------------------------------- C8
\* C8: the only failure Check returns is "rate limit exceeded".  Every element
\* of every list is a time value holding an instant captured by a Check, so the
\* not-a-time return is never taken, and Check returns (false, error) exactly
\* when the log left by the eviction has at least limit entries.
C8_OnlyRateLimitError ==
    /\ \A k \in DOMAIN requests : \A i \in DOMAIN requests[k] :
          IsTime(requests[k][i]) /\ requests[k][i].val \in 0..lastNow
    /\ \A p \in Procs : \A i \in DOMAIN requestTimes[p].list :
          IsTime(requestTimes[p].list[i]) /\ requestTimes[p].list[i].val \in 0..lastNow
    /\ \A p \in Procs : result[p].err # "notTime"
    /\ \A p \in Procs :
          Returning(p) =>
              /\ Admitted(p) \/ Rejected(p)
              /\ Rejected(p) <=> Len(PostEvict(pre[p], now[p])) >= maxRequests

\* a Check whose eviction loop has asserted the type of a stored element
\* returns the rate-limit error
C8_Witness ==
    \E p \in Procs :
        /\ Returning(p) /\ Rejected(p)
        /\ maxRequests > 0
        /\ pre[p] # <<>>
        /\ IsTime(Head(pre[p]))
        /\ Len(PostEvict(pre[p], now[p])) >= maxRequests

\* ------------------------------------------------------------------- C9
\* C9: decision and admission effect.  Check(key) at instant now returns
\* (true, nil) if and only if fewer than limit entries t of the key's log have
\* now - t <= window; when it does, the key's stored log is the log left by the
\* eviction with now appended once at the back.
C9_Decision ==
    \A p \in Procs :
        Returning(p) =>
            /\ Admitted(p) <=> CountInWindow(pre[p], now[p]) < maxRequests
            /\ result[p].ok <=> Admitted(p)
            /\ Admitted(p) =>
                  /\ userID[p] \in DOMAIN requests
                  /\ requests[userID[p]] =
                        Append(PostEvict(pre[p], now[p]), TimeValue(now[p]))
                  /\ Len(requests[userID[p]]) = CountInWindow(pre[p], now[p]) + 1

\* an admission after an eviction that kept an older entry
C9_Witness ==
    \E p \in Procs :
        /\ Returning(p) /\ Admitted(p)
        /\ PostEvict(pre[p], now[p]) # <<>>
        /\ Len(PostEvict(pre[p], now[p])) < Len(pre[p])
        /\ Head(PostEvict(pre[p], now[p])).val < now[p]

\* ------------------------------------------------------------------ C10
\* the number of entries of l that hold the instant n
CountAt(l, n) == Cardinality({i \in DOMAIN l : l[i].val = n})

\* C10: a rejected Check does not record the current event.  When Check(key)
\* returns a rejection, the key's log is the log found at the lookup without
\* its stale prefix: nothing was appended for this call, so it holds no more
\* entries for the call's instant than before.
C10_RejectNotRecorded ==
    \A p \in Procs :
        Returning(p) /\ ~result[p].ok =>
            /\ LogOf(requests, userID[p]) = PostEvict(pre[p], now[p])
            /\ CountAt(LogOf(requests, userID[p]), now[p]) = CountAt(pre[p], now[p])
            /\ Len(LogOf(requests, userID[p])) <= Len(pre[p])

\* a rejection at an instant for which the log already holds an entry (an
\* earlier admission at the same clock reading)
C10_Witness ==
    \E p \in Procs :
        /\ Returning(p) /\ Rejected(p)
        /\ maxRequests > 0
        /\ CountAt(pre[p], now[p]) > 0
        /\ LogOf(requests, userID[p]) = pre[p]

\* In a rejected call the stale prefix is empty: an eviction leaves fewer than
\* limit entries, so the call is admitted.
RejectionEvictsNothing ==
    \A p \in Procs :
        Returning(p) /\ ~result[p].ok => PostEvict(pre[p], now[p]) = pre[p]

\* ------------------------------------------------------------------ C11
\* caller p has looked the key up and has not returned yet
Loaded(p) == pc[p] \in {"evict", "len", "push", "store", "unlock"}

\* C11: eviction happens regardless of outcome.  When Check(key) returns,
\* admitted or rejected, the key's stored log holds no entry t with
\* now - t > window; and the log a later call finds at its lookup is the log the
\* earlier calls for the key left, so what was removed stays removed.
C11_EvictionRegardless ==
    /\ \A p \in Procs :
          Returning(p) =>
              \A i \in DOMAIN LogOf(requests, userID[p]) :
                  ~(now[p] - LogOf(requests, userID[p])[i].val > timeInterval)
    /\ \A p \in Procs :
          Loaded(p) => pre[p] = solo[userID[p]]

\* a call returns after its loop has removed a stale entry from the stored log
C11_Witness ==
    \E p \in Procs :
        /\ Returning(p)
        /\ \E i \in DOMAIN pre[p] : now[p] - pre[p][i].val > timeInterval
        /\ \A i \in DOMAIN LogOf(requests, userID[p]) :
              now[p] - LogOf(requests, userID[p])[i].val <= timeInterval

\* ------------------------------------------------------------------ C12
\* the instants of l do not decrease from front to back
Chronological(l) == \A i \in 1..(Len(l) - 1) : l[i].val <= l[i + 1].val

\* C12: chronological order.  In every reachable state, with concurrent callers,
\* each key's log is non-decreasing from front to back (the instant is captured
\* while the lock is held and appended before the lock is released, and the
\* clock never goes backwards); so is every list a caller holds.
C12_ChronologicalOrder ==
    /\ \A k \in DOMAIN requests : Chronological(requests[k])
    /\ \A p \in Procs : Chronological(requestTimes[p].list)
    /\ \A k \in DOMAIN requests : \A i \in DOMAIN requests[k] :
          requests[k][i].val <= clock

\* a stored log holds two different instants while one caller is inside Check
\* and the other waits at Lock() after the clock has moved on
C12_Witness ==
    \E k \in DOMAIN requests, p \in Procs, q \in Procs :
        /\ Len(requests[k]) = 2
        /\ requests[k][1].val < requests[k][2].val
        /\ pc[p] = "unlock" /\ userID[p] = k
        /\ pc[q] = "lock" /\ userID[q] = k
        /\ clock > now[p]

\* ------------------------------------------------------------------ C13
\* the last n entries of l
Suffix(l, n) == SubSeq(l, Len(l) - n + 1, Len(l))

\* C13: front-only eviction is complete.  While the loop runs, the list is a
\* suffix of the log found at the lookup and every entry removed so far has
\* now - t > window; when the loop has stopped, the list is empty or starts with
\* an entry with now - t <= window, and it holds exactly the entries of that log
\* with now - t <= window: no stale entry is left behind a kept one and no
\* entry within the window has been removed.
C13_FrontEvictionComplete ==
    \A p \in Procs :
        /\ pc[p] \in {"evict", "len"} =>
              /\ Len(List(p)) <= Len(pre[p])
              /\ List(p) = Suffix(pre[p], Len(List(p)))
              /\ \A i \in 1..(Len(pre[p]) - Len(List(p))) :
                    now[p] - pre[p][i].val > timeInterval
        /\ pc[p] = "len" =>
              /\ List(p) = <<>> \/ now[p] - Head(List(p)).val <= timeInterval
              /\ List(p) = PostEvict(pre[p], now[p])
              /\ \A i \in DOMAIN List(p) : now[p] - List(p)[i].val <= timeInterval

\* the loop has stopped after removing the first of two entries and keeping
\* the second
C13_Witness ==
    \E p \in Procs :
        /\ pc[p] = "len"
        /\ Len(pre[p]) = 2
        /\ now[p] - pre[p][1].val > timeInterval
        /\ now[p] - pre[p][2].val <= timeInterval
        /\ List(p) = <<pre[p][2]>>

\* ------------------------------------------------------------------ C14
\* C14: log length.  For limit > 0, every key's stored log, and every list a
\* caller holds, has at most limit entries in every reachable state: after
\* admitted and rejected calls, inside a call, and between the calls of
\* concurrent callers.
C14_LogLength ==
    maxRequests > 0 =>
        /\ \A k \in DOMAIN requests : Len(requests[k]) <= maxRequests
        /\ \A p \in Procs : Len(requestTimes[p].list) <= maxRequests

\* between calls: the mutex is free, a key's log holds limit = 2 entries, its
\* latest call was rejected, and a caller waits at Lock() for that key
C14_Witness ==
    \E k \in DOMAIN requests, q \in Procs :
        /\ maxRequests = 2
        /\ Len(requests[k]) = 2
        /\ mu = 0
        /\ rejOldest[k] >= 0
        /\ pc[q] = "lock" /\ userID[q] = k

\* ------------------------------------------------------------------ C15
\* a step of the Check call of caller p
StepOf(p) ==
    \/ \E k \in Keys : Call(p, k)
    \/ Lock(p) \/ ReadNow(p) \/ Load(p) \/ Evict(p)
    \/ Compare(p) \/ Push(p) \/ Store(p) \/ Unlock(p)

\* key b has the same map entry (present or absent) and the same log before
\* and after the step
SameEntry(b) ==
    /\ (b \in DOMAIN requests') <=> (b \in DOMAIN requests)
    /\ LogOf(requests', b) = LogOf(requests, b)

\* C15: frame.  No step of a Check(a), admitted or rejected, changes the map
\* entry or the log of a key b # a, and no step changes window or limit: the
\* configuration stays what construction set.
C15_Frame ==
    [][ /\ timeInterval' = timeInterval
        /\ maxRequests' = maxRequests
        /\ \A p \in Procs :
              StepOf(p) =>
                  \A b \in Keys \ {userID[p], userID'[p]} : SameEntry(b)
      ]_vars

\* a Check(a) has changed a's log and is returning while another key b has a
\* log of its own
C15_Witness ==
    \E p \in Procs, b \in DOMAIN requests :
        /\ Returning(p) /\ Admitted(p)
        /\ b # userID[p]
        /\ requests[b] # <<>>
        /\ LogOf(requests, userID[p]) # pre[p]
        /\ pre[p] # <<>>

\* ------------------------------------------------------------------ C16
\* What the lifecycle claims of a single state:
\*  - a key is present only if a Check for it stored it (so the map is empty
\*    after construction);
\*  - for limit > 0, the first Check for a key finds it absent, is admitted and
\*    creates its entry, and a key that has completed a call is present;
\*  - a Check that is left with an empty log after the eviction, because the key
\*    was absent or because all its entries were evicted, returns the same: for
\*    limit > 0 an admission that leaves the log <<now>>.
LifecycleState ==
    /\ \A k \in DOMAIN requests :
          \/ firstCall[k] # -1
          \/ \E p \in Procs : Returning(p) /\ userID[p] = k /\ Admitted(p)
    /\ \A p \in Procs :
          Returning(p) /\ maxRequests > 0 /\ firstCall[userID[p]] = -1 =>
              /\ pre[p] = <<>>
              /\ Admitted(p)
              /\ userID[p] \in DOMAIN requests
    /\ \A k \in Keys :
          maxRequests > 0 /\ firstCall[k] # -1 => k \in DOMAIN requests
    /\ \A p \in Procs :
          Returning(p) /\ PostEvict(pre[p], now[p]) = <<>> =>
              IF maxRequests > 0
              THEN Admitted(p) /\ LogOf(requests, userID[p]) = <<TimeValue(now[p])>>
              ELSE Rejected(p) /\ LogOf(requests, userID[p]) = <<>>

\* C16: lifecycle of a key's log.  The map is empty after construction; for
\* limit > 0 a key's entry is created by the first Check for the key, which is
\* admitted; a key that is present is never removed by any step, also when all
\* its entries have been evicted; a Check that finds only an empty log behaves
\* as it does for an absent key.
C16_Lifecycle ==
    [][ /\ LifecycleState
        /\ LifecycleState'
        /\ DOMAIN requests \subseteq DOMAIN requests'
      ]_vars

\* all entries of a present key have been evicted: the key is still in the map,
\* with an empty log, and the call goes on as for an absent key
C16_Witness ==
    \E p \in Procs :
        /\ pc[p] = "len"
        /\ pre[p] # <<>>
        /\ userID[p] \in DOMAIN requests
        /\ requests[userID[p]] = <<>>
        /\ \E b \in DOMAIN requests : b # userID[p]

\* ------------------------------------------------------------------ C17
\* C17: every Check terminates and releases the lock on every return path.
\* Under fair scheduling every caller that has invoked Check gets its result
\* (it is idle again), a caller that has returned does not hold the mutex, and
\* the mutex is held only by a caller inside Check: no caller waits at Lock()
\* forever.
C17_Termination ==
    /\ \A p \in Procs : (pc[p] # "idle") ~> (pc[p] = "idle")
    /\ [](\A p \in Procs : pc[p] \in {"idle", "lock"} => mu # p)
    /\ [](mu # 0 => InCritical(mu))

\* a caller waits at Lock() while the other caller, who holds the mutex, is
\* about to return a rejection
C17_Witness ==
    \E p \in Procs, q \in Procs :
        /\ pc[q] = "lock"
        /\ mu = p
        /\ Returning(p) /\ Rejected(p)

\* ------------------------------------------------------------------ C18
\* C18: configuration outside the precondition.  NewFloodControl accepts any
\* limit; a limiter constructed with limit <= 0 rejects every Check, for every
\* key at every instant, and never stores an entry: the map stays empty.
C18_NonPositiveLimit ==
    maxRequests <= 0 =>
        /\ DOMAIN requests = {}
        /\ \A p \in Procs : requestTimes[p].list = <<>>
        /\ \A p \in Procs : pc[p] \notin {"push", "store"}
        /\ \A p \in Procs : Returning(p) => Rejected(p)
        /\ \A k \in Keys : admitted[k] = <<>>

\* a limiter constructed with limit -1 rejects a call at a later instant, after
\* the other key has been called as well
C18_Witness ==
    \E p \in Procs :
        /\ maxRequests = -1
        /\ Returning(p) /\ Rejected(p)
        /\ now[p] > 0
        /\ \E b \in Keys : b # userID[p] /\ firstCall[b] # -1

\* ------------------------------------------------------------------ C19
\* the eviction loop of a Check(k) is running
Evicting(k) == \E p \in Procs : pc[p] = "evict" /\ userID[p] = k

\* No log holds an instant earlier than one the loop has removed from it, and
\* once the loop has stopped none equal to it either (while the loop runs, the
\* log may still hold further entries appended at the same clock reading as the
\* one just removed; they are removed next).
NoneReappears ==
    /\ \A k \in DOMAIN requests : \A i \in DOMAIN requests[k] :
          /\ requests[k][i].val >= evicted[k]
          /\ ~Evicting(k) => requests[k][i].val > evicted[k]
    /\ \A p \in Procs : \A i \in DOMAIN requestTimes[p].list :
          requestTimes[p].list[i].val > evicted[userID[p]]

\* an admitted call has appended its instant once
AppendedOnce ==
    \A p \in Procs :
        Returning(p) /\ Admitted(p) =>
            /\ Len(LogOf(requests, userID[p])) = Len(PostEvict(pre[p], now[p])) + 1
            /\ CountAt(LogOf(requests, userID[p]), now[p]) = CountAt(pre[p], now[p]) + 1

\* what a step does to the log of key k: nothing, or the eviction loop of a
\* Check(k) removes its front entry (a stale one), or a Check(k) appends its
\* instant at the back
LogStep(k) ==
    LET a == LogOf(requests, k)
        b == LogOf(requests', k)
    IN  \/ b = a
        \/ /\ a # <<>>
           /\ b = Tail(a)
           /\ \E p \in Procs :
                 /\ Evict(p) /\ userID[p] = k
                 /\ now[p] - Head(a).val > timeInterval
           /\ evicted'[k] = Head(a).val
        \/ \E p \in Procs :
              /\ Push(p) \/ Store(p)
              /\ userID[p] = k
              /\ b = Append(a, TimeValue(now[p]))
              /\ now[p] > evicted[k]

\* C19: each admitted instant is appended to its key's log once and removed at
\* most once.  Every change of a log is the removal of its front entry by the
\* eviction loop or one append at the back (never a removal from the middle or
\* the back), and an instant that has been evicted never reappears in the log.
C19_AppendOnceRemoveOnce ==
    [][ /\ \A k \in Keys : LogStep(k)
        /\ NoneReappears /\ NoneReappears'
        /\ AppendedOnce /\ AppendedOnce'
      ]_vars

\* after an eviction from a key's log, a later instant has been appended to it
C19_Witness ==
    \E p \in Procs :
        /\ Returning(p) /\ Admitted(p)
        /\ evicted[userID[p]] >= 0
        /\ Len(LogOf(requests, userID[p])) = 2
        /\ \A i \in 1..2 : LogOf(requests, userID[p])[i].val > evicted[userID[p]]

====
